---------------------------- MODULE Spec2Model ----------------------------
(***************************************************************************)
(* A model of server.py, the webhook receiver that turns an e-mailed       *)
(* image into a blog post.                                                 *)
(*                                                                         *)
(* Strings are sequences of one-character strings.  Python's None is the   *)
(* one-element sequence NoneValue, which no string of the model equals.    *)
(***************************************************************************)
EXTENDS Integers, Sequences, FiniteSets, TLC

(***************************************************************************)
(* Bounds of the model.                                                    *)
(***************************************************************************)
\* the clock advances in steps of 1/TicksPerSecond s (time.time() is a float)
TicksPerSecond == 2
\* the clock runs from ClockStart for at most MaxTicks steps
MaxTicks == 4
\* request timestamps are the decimal strings of 0 .. MaxTimestamp
MaxTimestamp == 1
\* besides the named sizes, images have sides of 1 .. MaxSide pixels
MaxSide == 4
\* the server receives at most MaxRequests requests
MaxRequests == 2

(***************************************************************************)
(* Program constants.                                                      *)
(***************************************************************************)
\* "if time.time() - int(timestamp) > 60"
MaxAge == 60

NoneValue == <<"<None>">>

Digits == <<"0", "1", "2", "3", "4", "5", "6", "7", "8", "9">>

Alphabet == Digits \o <<"a", "b", "k", "x">>

Ord(c) == CHOOSE i \in 1..Len(Alphabet) : Alphabet[i] = c

IsDigit(c) == \E i \in 1..Len(Digits) : Digits[i] = c

DigitValue(c) == (CHOOSE i \in 1..Len(Digits) : Digits[i] = c) - 1

\* str(n) for n >= 0
RECURSIVE IntToStr(_)
IntToStr(n) ==
    IF n < 10 THEN <<Digits[n + 1]>>
    ELSE IntToStr(n \div 10) \o <<Digits[(n % 10) + 1]>>

\* whether int(s) returns for the string s (decimal digits only)
IsDecimal(s) ==
    /\ s # NoneValue
    /\ Len(s) > 0
    /\ \A i \in 1..Len(s) : IsDigit(s[i])

\* int(s) for a decimal string s
RECURSIVE ParseInt(_)
ParseInt(s) ==
    IF Len(s) = 1 THEN DigitValue(s[1])
    ELSE 10 * ParseInt(SubSeq(s, 1, Len(s) - 1)) + DigitValue(s[Len(s)])

(***************************************************************************)
(* hmac.new(key, message, sha256).hexdigest(): a keyed digest of the bytes *)
(* of the message.  SHA-256 is replaced by a small keyed rolling hash; it  *)
(* depends on the key and on every character of the message in order.      *)
(***************************************************************************)
RECURSIVE Absorb(_, _)
Absorb(h, s) ==
    IF s = <<>> THEN h
    ELSE Absorb((h * 31 + Ord(Head(s))) % 61, Tail(s))

hmac_hexdigest(key, message) == IntToStr(Absorb(Absorb(7, key), message))

\* config['mailgun-key']
mailgun_key == <<"k">>

VARIABLES
    clock,                  \* time.time(), in ticks
    cached_mailgun_token,   \* the module global of the same name
    lastCall,               \* history: the latest verify_mailgun_request call
    prevCall,               \* history: the call before it (token, whether rejected)
    accepted,               \* history: the tokens of the calls that returned
    source,                 \* the image Image.open returns: size and EXIF data
    resized,                \* what resize_image did with it
    DRY,                    \* whether the environment sets DRY
    pc,                     \* where upload() stands; "idle" between requests
    response,               \* the answer to the latest request
    posts,                  \* the file names in blog/_posts
    tmp,                    \* the paths of the files in /tmp
    bucket,                 \* the keys of the objects in the S3 bucket
    post_object,            \* the dictionary of the same name
    img_path,               \* where the attachment was saved
    new_files,              \* the paths of the rendition files
    idx,                    \* the position of the loop over files
    effects,                \* history: what the latest request did, in order
    assigned,               \* history: the identifiers get_new_oid returned
    handled                 \* history: the number of requests received

verifyVars == <<cached_mailgun_token, lastCall, prevCall, accepted>>

ClockStart == (MaxAge - 1) * TicksPerSecond

\* the exceptions verify_mailgun_request raises, by message or type
ReplayDetected == "Mailgun token is identical to the previous one"
Expired == "Mailgun timestamp is older than 60 seconds"
SignatureMismatch == "Computed signature does not match request signature"
InvalidLiteral == "ValueError: invalid literal for int()"
TypeError == "TypeError"
Ok == "ok"

\* "if token == cached_mailgun_token"
IsReplay_Inverted(token, cached) == token # cached

IsReplay(token, cached) == token = cached

\* "if time.time() - int(timestamp) > 60", the clock in ticks
IsExpired_AtSixty(now, timestamp) ==
    now - ParseInt(timestamp) * TicksPerSecond >= MaxAge * TicksPerSecond

IsExpired(now, timestamp) ==
    now - ParseInt(timestamp) * TicksPerSecond > MaxAge * TicksPerSecond

\* "computed = hmac.new(api_key, message, hashlib.sha256).hexdigest()"
ComputedSignature(timestamp, token) ==
    hmac_hexdigest(mailgun_key, timestamp \o token)

\* "hmac.compare_digest(computed, signature)"
compare_digest_Always(computed, signature) == TRUE

compare_digest(computed, signature) == computed = signature

(***************************************************************************)
(* verify_mailgun_request(timestamp, token, signature), called with the    *)
(* stored token `cached` at clock value `now`: what it raises (Ok when it  *)
(* returns) and the stored token it leaves.                                *)
(***************************************************************************)
AfterReplayCheck(timestamp, token, signature, now) ==
    IF timestamp = NoneValue THEN TypeError               \* int(None)
    ELSE IF ~IsDecimal(timestamp) THEN InvalidLiteral     \* int('x')
    ELSE IF IsExpired(now, timestamp) THEN Expired
    ELSE IF token = NoneValue THEN TypeError              \* timestamp + None
    ELSE IF signature = NoneValue THEN TypeError          \* compare_digest(str, None)
    ELSE IF ~compare_digest(ComputedSignature(timestamp, token), signature)
         THEN SignatureMismatch
    ELSE Ok

verify_CacheOnSuccess(timestamp, token, signature, cached, now) ==
    IF IsReplay(token, cached)
    THEN [raised |-> ReplayDetected, cached |-> cached]
    ELSE LET r == AfterReplayCheck(timestamp, token, signature, now)
         IN  [raised |-> r, cached |-> IF r = Ok THEN token ELSE cached]

verify_CacheAfterFreshness(timestamp, token, signature, cached, now) ==
    IF IsReplay(token, cached)
    THEN [raised |-> ReplayDetected, cached |-> cached]
    ELSE LET r == AfterReplayCheck(timestamp, token, signature, now)
         IN  [raised |-> r,
              cached |-> IF r \in {Expired, InvalidLiteral} THEN cached ELSE token]

verify_mailgun_request(timestamp, token, signature, cached, now) ==
    IF IsReplay(token, cached)
    THEN [raised |-> ReplayDetected, cached |-> cached]
    ELSE [raised |-> AfterReplayCheck(timestamp, token, signature, now),
          cached |-> token]

(***************************************************************************)
(* resize_image(img, metadata).  An image is its size <<width, height>>;   *)
(* its EXIF data are the Orientation and DateTime tags, each present or    *)
(* not.                                                                    *)
(***************************************************************************)
\* None in ORIENTATIONS: no rotation
NoRotation == 0

ORIENTATIONS_QuarterTurnsSwapped ==
    <<NoRotation, NoRotation, NoRotation, -180, NoRotation, NoRotation, -270,
      NoRotation, -90>>

ORIENTATIONS ==
    <<NoRotation, NoRotation, NoRotation, -180, NoRotation, NoRotation, -90,
      NoRotation, -270>>

\* the four long-edge sizes of "for x in [ 320.0, 640.0, 960.0, 1280.0 ]"
TargetSizes == <<320, 640, 960, 1280>>

IndexError == "IndexError"
ValueError == "ValueError"

\* metadata.get('Orientation', 0)
OrientationOf(metadata) ==
    IF metadata.hasOrientation THEN metadata.Orientation ELSE 0

\* whether ORIENTATIONS[i] is in range (EXIF Orientation is an unsigned short)
InRange(i) == i \in 0..(Len(ORIENTATIONS) - 1)

\* img.rotate(degree, expand = True).size: a quarter turn swaps the sides
Rotated(size, degree) ==
    IF degree \in {-90, -270} THEN <<size[2], size[1]>> ELSE size

\* "larger_dimension = width if width > height else height"
LargerDimension(size) == IF size[1] > size[2] THEN size[1] ELSE size[2]

(***************************************************************************)
(* round(side * (target / larger)): the integers nearest to the exact      *)
(* quotient.  When the quotient lies halfway between two integers the      *)
(* rounding error of the float product decides which one round() returns   *)
(* (11 * (960.0 / 1408) is 7.499999999999999), so both are possible.       *)
(***************************************************************************)
Rounded_Floor(side, target, larger) == {(side * target) \div larger}

Rounded(side, target, larger) ==
    LET q == (side * target) \div larger
        r == (side * target) % larger
    IN  IF 2 * r < larger THEN {q}
        ELSE IF 2 * r > larger THEN {q + 1}
        ELSE {q, q + 1}

\* "new_sizes = [ (round(width * s), round(height * s)) for s in scales ]"
NewSizes(size) ==
    LET larger == LargerDimension(size)
        choices(i) == Rounded(size[1], TargetSizes[i], larger)
                          \X Rounded(size[2], TargetSizes[i], larger)
    IN  {ns \in [1..Len(TargetSizes) -> UNION {choices(i) : i \in 1..Len(TargetSizes)}] :
            \A i \in 1..Len(TargetSizes) : ns[i] \in choices(i)}

\* img.resize(size, Image.LANCZOS) raises ValueError for an empty size
ResizeRaises(ns) == \E i \in 1..Len(ns) : ns[i][1] < 1 \/ ns[i][2] < 1

\* the outcomes of resize_image: an exception, or the sizes of the list
\* returned; degree is the degree_to_rotate the image was rotated by
resize_image(size, metadata) ==
    IF ~InRange(OrientationOf(metadata))
    THEN {[raised |-> IndexError, sizes |-> <<>>, degree |-> NoRotation]}
    ELSE LET degree_to_rotate == ORIENTATIONS[OrientationOf(metadata) + 1]
             img == Rotated(size, degree_to_rotate)
         IN  {IF ResizeRaises(ns)
              THEN [raised |-> ValueError, sizes |-> <<>>,
                    degree |-> degree_to_rotate]
              ELSE [raised |-> Ok, sizes |-> ns, degree |-> degree_to_rotate] :
                 ns \in NewSizes(img)}

\* the images of the model
NoDateTime == NoneValue

Exif(hasOrientation, orientation, dt) ==
    [hasOrientation |-> hasOrientation, Orientation |-> orientation, DateTime |-> dt]

SmallSizes == (1..MaxSide) \X (1..MaxSide)

\* the 1600x1200 image of the tests, an image whose quotients fall halfway,
\* and two narrow ones
NamedSizes == {<<1600, 1200>>, <<1408, 11>>, <<3, 1600>>, <<1, 2000>>}

Metadatas ==
    {Exif(FALSE, 0, NoDateTime)}
        \cup {Exif(TRUE, o, NoDateTime) : o \in 0..Len(ORIENTATIONS)}

Images == {[size |-> sz, metadata |-> md] : sz \in SmallSizes \cup NamedSizes,
                                            md \in Metadatas}

NotResized == [raised |-> "not called", sizes |-> <<>>, degree |-> NoRotation]

NoSource == [size |-> <<1, 1>>, metadata |-> Exif(FALSE, 0, NoDateTime)]

ImageInit ==
    /\ source = NoSource
    /\ resized = NotResized

\* an image is opened
OpenImage(image) ==
    /\ source' = image
    /\ resized' = NotResized

\* resize_image is applied to it
ResizeImage ==
    /\ resized = NotResized
    /\ resized' \in resize_image(source.size, source.metadata)
    /\ UNCHANGED source

(***************************************************************************)
(* The request fields a caller can send.  A field the form lacks is None   *)
(* (request.forms.get).                                                    *)
(***************************************************************************)
GoodTimestamps == {IntToStr(n) : n \in 0..MaxTimestamp}

Timestamps == GoodTimestamps \cup {<<"x">>, NoneValue}

GoodTokens == {<<"a">>, <<"b">>}

Tokens == GoodTokens \cup {NoneValue}

Signatures ==
    {ComputedSignature(ts, tok) : ts \in GoodTimestamps, tok \in GoodTokens}
        \cup {NoneValue}

(***************************************************************************)
(* String operations of the handler.                                       *)
(***************************************************************************)
\* s.startswith(prefix)
StartsWith(s, prefix) ==
    /\ Len(s) >= Len(prefix)
    /\ SubSeq(s, 1, Len(prefix)) = prefix

\* s.split(c)[0]
RECURSIVE BeforeFirst(_, _)
BeforeFirst(s, c) ==
    IF s = <<>> \/ Head(s) = c THEN <<>>
    ELSE <<Head(s)>> \o BeforeFirst(Tail(s), c)

\* s.split(c)[-1]
RECURSIVE AfterLast(_, _)
AfterLast(s, c) ==
    IF \A i \in 1..Len(s) : s[i] # c THEN s
    ELSE AfterLast(Tail(s), c)

\* s.replace(a, b) for characters a and b
ReplaceChar(s, a, b) == [i \in 1..Len(s) |-> IF s[i] = a THEN b ELSE s[i]]

\* html.escape(s)
RECURSIVE html_escape(_)
html_escape(s) ==
    IF s = <<>> THEN <<>>
    ELSE (CASE Head(s) = "&" -> <<"&", "a", "m", "p", ";">>
            [] Head(s) = "<" -> <<"&", "l", "t", ";">>
            [] Head(s) = ">" -> <<"&", "g", "t", ";">>
            [] Head(s) = "\"" -> <<"&", "q", "u", "o", "t", ";">>
            [] Head(s) = "'" -> <<"&", "#", "x", "2", "7", ";">>
            [] OTHER -> <<Head(s)>>) \o html_escape(Tail(s))

\* os.path.join(directory, name)
join(directory, name) == directory \o <<"/">> \o name

\* os.path.basename(path)
basename(path) == AfterLast(path, "/")

TEMP_PATH == <<"/", "t", "m", "p">>

\* '%d-%d.jpg' % (oid, w)
JpgName(oid, w) == IntToStr(oid) \o <<"-">> \o IntToStr(w) \o <<".", "j", "p", "g">>

\* '{0}-{1}.md'.format(str(today), oid), the name of a post in blog/_posts
PostName(date, oid) == date \o <<"-">> \o IntToStr(oid) \o <<".", "m", "d">>

\* str(datetime.date.today())
Today == <<"2", "0", "1", "7", "-", "0", "8", "-", "0", "3">>

(***************************************************************************)
(* is_authorized(): authorized_senders.match(sender), a match at the start *)
(* of the sender; the configured pattern is the literal text of an address.*)
(***************************************************************************)
authorized_senders == <<"a", "@", "b">>

is_authorized(sender) == StartsWith(sender, authorized_senders)

\* get_new_oid(), given os.listdir('blog/_posts'); the listing is not empty
get_new_oid_Count(listing) == Cardinality(listing)

get_new_oid(listing) ==
    LET oids == {ParseInt(AfterLast(BeforeFirst(p, "."), "-")) : p \in listing}
    IN  (CHOOSE m \in oids : \A n \in oids : n <= m) + 1

\* "dt.split(' ')[0].replace(':', '-')"
CaptureDate(dt) == ReplaceChar(BeforeFirst(dt, " "), ":", "-")

\* the <img> tag of create_img_tag(oid, widths, summary), by its attributes
create_img_tag(oid, widths, summary) ==
    [src |-> JpgName(oid, widths[2]),
     srcset |-> [i \in 1..4 |-> [file |-> JpgName(oid, widths[i]), w |-> widths[i]]],
     alt |-> summary # <<>>]

\* max(widths)
MaxOf(widths) ==
    CHOOSE m \in {widths[i] : i \in 1..Len(widths)} :
        \A i \in 1..Len(widths) : widths[i] <= m

\* the order of the steps of process_image after the resize
ProcessSteps_DeleteFirst == <<"save", "delete", "upload_files", "finish">>

ProcessSteps == <<"save", "upload_files", "delete", "finish">>

StepAfter(step) ==
    ProcessSteps[(CHOOSE i \in 1..Len(ProcessSteps) : ProcessSteps[i] = step) + 1]

\* upload_files has no handler around S3.put_object: its exception propagates
OnPutObjectError_Continue == "continue"

OnPutObjectError == "raise"

\* delete(path): what it does to a path, by the DRY flag
delete_effects_Unguarded(path, dry) ==
    <<[op |-> "info:Deleting", arg |-> path], [op |-> "remove", arg |-> path]>>

delete_effects(path, dry) ==
    <<[op |-> "info:Deleting", arg |-> path]>>
        \o (IF dry THEN <<>> ELSE <<[op |-> "remove", arg |-> path]>>)

\* upload_files(path): what it does with a path, by the DRY flag
upload_effects(path, dry) ==
    <<[op |-> "info:Uploading", arg |-> path]>>
        \o (IF dry THEN <<>> ELSE <<[op |-> "put_object", arg |-> basename(path)]>>)

(***************************************************************************)
(* The requests of the model.                                              *)
(***************************************************************************)
Senders == {authorized_senders, <<"x", "@", "b">>, NoneValue}

Subjects == {<<>>, <<"a", "&", "b">>}

ImageAttachment ==
    [url |-> <<"u">>, name |-> <<"p", ".", "j", "p", "g">>, content_type |-> <<"i", "m", "a", "g", "e", "/", "j", "p", "e", "g">>]

TextAttachment ==
    [url |-> <<"u">>, name |-> <<"p", ".", "t", "x", "t">>, content_type |-> <<"t", "e", "x", "t", "/", "p", "l", "a", "i", "n">>]

\* the attachments field: absent, or the list json.loads returns
AttachmentLists ==
    {[present |-> FALSE, list |-> <<>>],
     [present |-> TRUE, list |-> <<>>],
     [present |-> TRUE, list |-> <<TextAttachment>>],
     [present |-> TRUE, list |-> <<ImageAttachment>>]}

\* the images an attachment can hold
UploadedImages ==
    {[size |-> <<1600, 1200>>, metadata |-> Exif(FALSE, 0, <<"2", "0", "1", "7", ":", "0", "5", ":", "0", "5", " ", "1", "3", ":", "2", "1", ":", "0", "5">>)],
     [size |-> <<1600, 1200>>, metadata |-> Exif(TRUE, 9, NoDateTime)],
     [size |-> <<3, 1600>>, metadata |-> Exif(FALSE, 0, NoDateTime)]}

\* blog/_posts as the tests list it
InitialPosts ==
    {PostName(<<"2", "0", "1", "2", "-", "0", "5", "-", "1", "5">>, 0), PostName(<<"2", "0", "1", "6", "-", "1", "1", "-", "0", "2">>, 1),
     PostName(<<"2", "0", "1", "7", "-", "0", "1", "-", "1", "6">>, 3)}

NoPost == [oid |-> -1, summary |-> <<>>, date |-> NoneValue,
           og_image |-> NoneValue, content |-> <<>>]

Pending == [status |-> 0, error |-> ""]

UploadInit ==
    /\ DRY \in BOOLEAN
    /\ pc = "idle"
    /\ response = Pending
    /\ posts \in {InitialPosts, {}}
    /\ tmp = {}
    /\ bucket = {}
    /\ post_object = NoPost
    /\ img_path = <<>>
    /\ new_files = <<>>
    /\ idx = 0
    /\ effects = <<>>
    /\ assigned = <<>>
    /\ handled = 0

\* the locals of upload() and process_image() are gone when upload() ends
ClearLocals ==
    /\ post_object' = NoPost
    /\ img_path' = <<>>
    /\ new_files' = <<>>
    /\ idx' = 0
    /\ source' = NoSource
    /\ resized' = NotResized

\* upload() ends: abort(406), an exception that leaves upload() (bottle
\* answers it with 500), or the return (200)
Respond(status, error) ==
    /\ response' = [status |-> status, error |-> error]
    /\ pc' = "idle"
    /\ ClearLocals

\* "except Exception as e: logging.exception(e); abort(406)"
Abort406(error) == Respond(406, error)

\* an exception raised outside the try block
Uncaught(error) == Respond(500, error)

(***************************************************************************)
(* upload().  The fields of request.forms are inputs of the step that      *)
(* reads them.                                                             *)
(***************************************************************************)
\* a request arrives: "if not is_authorized()"
Upload_Authorize(sender) ==
    /\ pc = "idle"
    /\ handled < MaxRequests
    /\ handled' = handled + 1
    /\ effects' = <<>>
    /\ UNCHANGED <<DRY, posts, tmp, bucket, assigned, cached_mailgun_token>>
    /\ IF sender = NoneValue
       THEN Uncaught(TypeError)                     \* authorized_senders.match(None)
       ELSE IF ~is_authorized(sender)
       THEN Abort406("unauthorized")
       ELSE /\ pc' = "verify"
            /\ response' = Pending
            /\ UNCHANGED <<post_object, img_path, new_files, idx, source, resized>>

\* "verify_mailgun_request(timestamp, token, signature)", before the try block
Upload_Verify(timestamp, token, signature) ==
    /\ pc = "verify"
    /\ UNCHANGED <<DRY, posts, tmp, bucket, assigned, handled, effects>>
    /\ LET v == verify_mailgun_request(timestamp, token, signature,
                                       cached_mailgun_token, clock)
       IN  /\ cached_mailgun_token' = v.cached
           /\ IF v.raised # Ok
              THEN Uncaught(v.raised)
              ELSE /\ pc' = "pull"
                   /\ UNCHANGED <<response, post_object, img_path, new_files,
                                  idx, source, resized>>

\* "git.pull('origin', 'master')", before the try block and whatever DRY is
Upload_Pull(ok) ==
    /\ pc = "pull"
    /\ effects' = Append(effects, [op |-> "git.pull", arg |-> <<>>])
    /\ UNCHANGED <<DRY, posts, tmp, bucket, assigned, handled,
                   cached_mailgun_token>>
    /\ IF ok
       THEN /\ pc' = "get_new_oid"
            /\ UNCHANGED <<response, post_object, img_path, new_files,
                           idx, source, resized>>
       ELSE Uncaught("GitCommandError")

\* "new_oid = get_new_oid()" and the summary, from the subject field
Upload_GetNewOid(subject) ==
    /\ pc = "get_new_oid"
    /\ UNCHANGED <<DRY, posts, tmp, bucket, handled, effects,
                   cached_mailgun_token>>
    /\ IF posts = {}
       THEN Abort406(IndexError) /\ UNCHANGED assigned
       ELSE /\ post_object' = [NoPost EXCEPT !.oid = get_new_oid(posts),
                                             !.summary = html_escape(subject)]
            /\ assigned' = Append(assigned, [oid |-> get_new_oid(posts),
                                             wrote |-> FALSE])
            /\ pc' = "download"
            /\ UNCHANGED <<response, img_path, new_files, idx, source,
                           resized>>

\* download_attachments(request.forms.get('attachments')); `image` is what
\* the attachment holds
Upload_Download(attachments, ok, image) ==
    /\ pc = "download"
    /\ UNCHANGED <<DRY, posts, bucket, handled, assigned, cached_mailgun_token>>
    /\ IF ~attachments.present
       THEN Abort406(TypeError) /\ UNCHANGED <<tmp, effects>>    \* json.loads(None)
       ELSE IF attachments.list = <<>>
       THEN Abort406(IndexError) /\ UNCHANGED <<tmp, effects>>
       ELSE LET attachment == attachments.list[1]
                save_path == join(TEMP_PATH, attachment.name)
                get == [op |-> "requests.get", arg |-> attachment.url]
            IN  IF ~StartsWith(attachment.content_type, <<"i", "m", "a", "g", "e">>)
                THEN Abort406("Unsupported file type") /\ UNCHANGED <<tmp, effects>>
                ELSE IF ~ok
                THEN /\ effects' = Append(effects, get)
                     /\ Abort406("RequestException")
                     /\ UNCHANGED tmp
                ELSE /\ effects' = effects \o <<get, [op |-> "write", arg |-> save_path]>>
                     /\ tmp' = tmp \cup {save_path}
                     /\ img_path' = save_path
                     /\ source' = image
                     /\ pc' = "process_image"
                     /\ UNCHANGED <<response, post_object, new_files,
                                    idx, resized>>

\* process_image up to the file names: open, EXIF data, date, resize
ProcessImage_Resize(ok) ==
    /\ pc = "process_image"
    /\ UNCHANGED <<DRY, posts, tmp, bucket, handled, assigned, effects,
                   cached_mailgun_token>>
    /\ IF ~ok
       THEN Abort406("OSError: cannot identify image file")
       ELSE \E r \in resize_image(source.size, source.metadata) :
               IF r.raised # Ok
               THEN Abort406(r.raised)
               ELSE /\ resized' = r
                    /\ post_object' =
                          [post_object EXCEPT !.date =
                               IF source.metadata.DateTime # NoDateTime
                               THEN CaptureDate(source.metadata.DateTime)
                               ELSE @]
                    /\ new_files' = [i \in 1..Len(r.sizes) |->
                                        join(TEMP_PATH,
                                             JpgName(post_object.oid, r.sizes[i][1]))]
                    /\ idx' = 1
                    /\ pc' = ProcessSteps[1]
                    /\ UNCHANGED <<response, img_path, source>>

\* the step the loop at idx of a process_image step leads to
Advance(paths) ==
    IF idx < Len(paths)
    THEN idx' = idx + 1 /\ UNCHANGED pc
    ELSE idx' = 1 /\ pc' = StepAfter(pc)

\* "r.save(f, optimize = True, progressive = True)", one file of the loop
ProcessImage_Save(ok) ==
    /\ pc = "save"
    /\ UNCHANGED <<DRY, posts, bucket, handled, assigned, cached_mailgun_token>>
    /\ IF ok
       THEN /\ tmp' = tmp \cup {new_files[idx]}
            /\ effects' = Append(effects, [op |-> "save", arg |-> new_files[idx]])
            /\ Advance(new_files)
            /\ UNCHANGED <<response, post_object, img_path, new_files,
                           source, resized>>
       ELSE Abort406("OSError: save") /\ UNCHANGED <<tmp, effects>>

\* upload_files(*new_files), one path of its loop
UploadFiles(ok) ==
    /\ pc = "upload_files"
    /\ UNCHANGED <<DRY, posts, tmp, handled, assigned, cached_mailgun_token>>
    /\ LET path == new_files[idx]
           info == [op |-> "info:Uploading", arg |-> path]
           continue == /\ Advance(new_files)
                       /\ UNCHANGED <<response, post_object, img_path,
                                      new_files, source, resized>>
       IN  IF ~DRY /\ path \notin tmp
           THEN /\ effects' = Append(effects, info)
                /\ Abort406("FileNotFoundError")
                /\ UNCHANGED bucket
           ELSE IF ~DRY /\ ~ok
           THEN /\ effects' = Append(effects, info)
                /\ UNCHANGED bucket
                /\ IF OnPutObjectError = "raise"
                   THEN Abort406("ClientError")
                   ELSE continue
           ELSE /\ effects' = effects \o upload_effects(path, DRY)
                /\ bucket' = IF DRY THEN bucket ELSE bucket \cup {basename(path)}
                /\ continue

\* delete(img_path, *new_files), one path of its loop
Delete ==
    /\ pc = "delete"
    /\ UNCHANGED <<DRY, posts, bucket, handled, assigned, cached_mailgun_token>>
    /\ LET paths == <<img_path>> \o new_files
           path == paths[idx]
           does == delete_effects(path, DRY)
           removes == \E i \in 1..Len(does) : does[i].op = "remove"
       IN  IF removes /\ path \notin tmp
           THEN /\ effects' = Append(effects, does[1])
                /\ Abort406("FileNotFoundError")
                /\ UNCHANGED tmp
           ELSE /\ effects' = effects \o does
                /\ tmp' = IF removes THEN tmp \ {path} ELSE tmp
                /\ Advance(paths)
                /\ UNCHANGED <<response, post_object, img_path,
                               new_files, source, resized>>

\* the end of process_image: og_image and content
ProcessImage_Finish ==
    /\ pc = "finish"
    /\ LET widths == [i \in 1..Len(resized.sizes) |-> resized.sizes[i][1]]
       IN  post_object' =
              [post_object EXCEPT
                  !.og_image = JpgName(post_object.oid, MaxOf(widths)),
                  !.content = <<create_img_tag(post_object.oid, widths,
                                               post_object.summary)>>]
    /\ pc' = "create_post"
    /\ UNCHANGED <<DRY, posts, tmp, bucket, handled, assigned, effects,
                   cached_mailgun_token, response, img_path, new_files,
                   idx, source, resized>>

\* create_post(post_object): the post file is written unless DRY
CreatePost(ok) ==
    /\ pc = "create_post"
    /\ UNCHANGED <<DRY, tmp, bucket, handled, cached_mailgun_token>>
    /\ LET file_name == PostName(Today, post_object.oid)
       IN  IF DRY
           THEN /\ pc' = "update_site"
                /\ UNCHANGED <<posts, assigned, effects, response,
                               post_object, img_path, new_files, idx, source,
                               resized>>
           ELSE IF ok
           THEN /\ posts' = posts \cup {file_name}
                /\ assigned' = [assigned EXCEPT ![Len(assigned)].wrote = TRUE]
                /\ effects' = Append(effects, [op |-> "write_post", arg |-> file_name])
                /\ pc' = "update_site"
                /\ UNCHANGED <<response, post_object, img_path,
                               new_files, idx, source, resized>>
           ELSE Abort406("OSError: open") /\ UNCHANGED <<posts, assigned, effects>>

\* update_site(new_oid): add, commit and push unless DRY; `failing` is the
\* number of the git command that fails, 0 when none does
UpdateSite(failing) ==
    /\ pc = "update_site"
    /\ UNCHANGED <<DRY, posts, tmp, bucket, handled, assigned,
                   cached_mailgun_token>>
    /\ LET commands == <<[op |-> "git.add", arg |-> <<>>],
                         [op |-> "git.commit", arg |-> <<>>],
                         [op |-> "git.push", arg |-> <<>>]>>
       IN  IF DRY
           THEN Respond(200, "") /\ UNCHANGED effects
           ELSE IF failing = 0
           THEN Respond(200, "") /\ effects' = effects \o commands
           ELSE /\ effects' = effects \o SubSeq(commands, 1, failing)
                /\ Abort406("GitCommandError")

uploadVars == <<DRY, pc, response, posts, tmp, bucket, post_object,
                img_path, new_files, idx, effects, assigned, handled>>

NoCall == [timestamp |-> NoneValue, token |-> NoneValue, signature |-> NoneValue,
           cached |-> NoneValue, now |-> 0, raised |-> "no call",
           acceptedBefore |-> FALSE]

NoPrevCall == [token |-> <<"<no call>">>, rejected |-> FALSE]

VerifyInit ==
    /\ cached_mailgun_token = NoneValue
    /\ lastCall = NoCall
    /\ prevCall = NoPrevCall
    /\ accepted = {}

\* the clock advances
Tick ==
    /\ clock < ClockStart + MaxTicks
    /\ clock' = clock + 1

\* one call of verify_mailgun_request, as the tests and upload() make it
VerifyCall(timestamp, token, signature) ==
    LET v == verify_mailgun_request(timestamp, token, signature,
                                    cached_mailgun_token, clock)
    IN  /\ cached_mailgun_token' = v.cached
        /\ lastCall' = [timestamp |-> timestamp, token |-> token,
                        signature |-> signature,
                        cached |-> cached_mailgun_token, now |-> clock,
                        raised |-> v.raised,
                        acceptedBefore |-> token \in accepted]
        /\ prevCall' = IF lastCall = NoCall THEN prevCall
                       ELSE [token |-> lastCall.token,
                             rejected |-> lastCall.raised # Ok]
        /\ accepted' = IF v.raised = Ok THEN accepted \cup {token} ELSE accepted

imageVars == <<source, resized>>

vars == <<clock, cached_mailgun_token, lastCall, prevCall, accepted,
          source, resized, DRY, pc, response, posts, tmp, bucket,
          post_object, img_path, new_files, idx, effects, assigned, handled>>

historyVars == <<lastCall, prevCall, accepted>>

Init == clock = ClockStart /\ VerifyInit /\ ImageInit /\ UploadInit

(***************************************************************************)
(* The server: requests to POST /upload, handled one at a time.            *)
(***************************************************************************)
Next ==
    \/ pc = "idle" /\ Tick
          /\ UNCHANGED <<cached_mailgun_token, imageVars, uploadVars, historyVars>>
    \/ \E sender \in Senders :
          Upload_Authorize(sender) /\ UNCHANGED <<clock, historyVars>>
    \/ \E ts \in Timestamps, tok \in Tokens, sig \in Signatures :
          Upload_Verify(ts, tok, sig) /\ UNCHANGED <<clock, historyVars>>
    \/ \E ok \in BOOLEAN : Upload_Pull(ok) /\ UNCHANGED <<clock, historyVars>>
    \/ \E subject \in Subjects :
          Upload_GetNewOid(subject) /\ UNCHANGED <<clock, historyVars>>
    \/ \E attachments \in AttachmentLists, ok \in BOOLEAN, image \in UploadedImages :
          Upload_Download(attachments, ok, image) /\ UNCHANGED <<clock, historyVars>>
    \/ \E ok \in BOOLEAN : ProcessImage_Resize(ok) /\ UNCHANGED <<clock, historyVars>>
    \/ \E ok \in BOOLEAN : ProcessImage_Save(ok) /\ UNCHANGED <<clock, historyVars>>
    \/ \E ok \in BOOLEAN : UploadFiles(ok) /\ UNCHANGED <<clock, historyVars>>
    \/ Delete /\ UNCHANGED <<clock, historyVars>>
    \/ ProcessImage_Finish /\ UNCHANGED <<clock, historyVars>>
    \/ \E ok \in BOOLEAN : CreatePost(ok) /\ UNCHANGED <<clock, historyVars>>
    \/ \E failing \in 0..3 : UpdateSite(failing) /\ UNCHANGED <<clock, historyVars>>

Spec == Init /\ [][Next]_vars

(***************************************************************************)
(* verify_mailgun_request called on its own, as the tests call it.         *)
(***************************************************************************)
NextVerify ==
    \/ Tick /\ UNCHANGED <<verifyVars, imageVars, uploadVars>>
    \/ \E ts \in Timestamps, tok \in Tokens, sig \in Signatures :
          VerifyCall(ts, tok, sig) /\ UNCHANGED <<clock, imageVars, uploadVars>>

\* DRY and blog/_posts play no part here
InitAlone == Init /\ ~DRY /\ posts = InitialPosts

SpecVerify == InitAlone /\ [][NextVerify]_vars

(***************************************************************************)
(* resize_image called on its own, on every image of the model.            *)
(***************************************************************************)
NextResize ==
    \/ \E image \in Images :
          OpenImage(image) /\ UNCHANGED <<clock, verifyVars, uploadVars>>
    \/ ResizeImage /\ UNCHANGED <<clock, verifyVars, uploadVars>>

SpecResize == InitAlone /\ [][NextResize]_vars

(***************************************************************************)
(* Properties of verify_mailgun_request.                                   *)
(***************************************************************************)
Called == lastCall # NoCall

\* the latest call passed strings, a decimal one as the timestamp
StringCall ==
    /\ Called
    /\ IsDecimal(lastCall.timestamp)
    /\ lastCall.token # NoneValue
    /\ lastCall.signature # NoneValue

\* the age of the latest call's timestamp at the call, in ticks
AgeTicks == lastCall.now - ParseInt(lastCall.timestamp) * TicksPerSecond

SixtySeconds == MaxAge * TicksPerSecond

\* the latest call's signature is HMAC(key, timestamp + token)
SignatureCorrect ==
    /\ lastCall.timestamp # NoneValue
    /\ lastCall.token # NoneValue
    /\ lastCall.signature =
          hmac_hexdigest(mailgun_key, lastCall.timestamp \o lastCall.token)

\* the latest call is valid but for the replay check
ValidCall ==
    /\ Called
    /\ IsDecimal(lastCall.timestamp)
    /\ AgeTicks <= SixtySeconds
    /\ SignatureCorrect

\* C1 as stated: a valid (timestamp, token) verifies exactly once over any
\* sequence of calls, so no call returns for a token an earlier call
\* returned for.
C1_ExactlyOnce == lastCall.raised = Ok => ~lastCall.acceptedBefore

\* C1, amended: a valid call whose token differs from the stored token
\* returns; a call whose token is that of the immediately preceding call
\* raises the replay error, valid or not.
C1_ImmediateRepeatRejected ==
    /\ ValidCall /\ lastCall.token # lastCall.cached => lastCall.raised = Ok
    /\ Called /\ lastCall.token = prevCall.token
          => lastCall.raised = ReplayDetected

\* a valid call repeats the token the preceding call was accepted with
C1_Witness ==
    /\ ValidCall
    /\ lastCall.token = prevCall.token
    /\ ~prevCall.rejected
    /\ lastCall.raised = ReplayDetected

\* C3 as stated (for string arguments): any call with a timestamp more than
\* 60 s old raises the Expired error.
C3_AnyOldCallExpired ==
    StringCall /\ IsDecimal(lastCall.timestamp) /\ AgeTicks > SixtySeconds
        => lastCall.raised = Expired

\* C3, amended: a call that passes the replay check with a timestamp more
\* than 60 s old raises the Expired error whatever its signature; no call
\* with a timestamp at most 60 s old raises it.
C3_ExpiredAfterReplayCheck ==
    Called /\ IsDecimal(lastCall.timestamp) =>
        /\ AgeTicks > SixtySeconds /\ lastCall.token # lastCall.cached
              => lastCall.raised = Expired
        /\ AgeTicks <= SixtySeconds => lastCall.raised # Expired

\* a call with a correct signature and a timestamp just over 60 s old is
\* rejected as expired
C3_Witness ==
    /\ Called
    /\ IsDecimal(lastCall.timestamp)
    /\ AgeTicks > SixtySeconds
    /\ AgeTicks < SixtySeconds + TicksPerSecond
    /\ SignatureCorrect
    /\ lastCall.raised = Expired

\* C4 as stated (for string arguments): any call with a wrong signature
\* raises the SignatureMismatch error.
C4_AnyWrongSignatureMismatch ==
    StringCall /\ ~SignatureCorrect => lastCall.raised = SignatureMismatch

\* C4, amended: no call with a wrong signature returns; it raises the
\* SignatureMismatch error when it passes the replay and freshness checks
\* with a token and a signature that are strings.
C4_WrongSignatureNeverAccepted ==
    Called /\ ~SignatureCorrect =>
        /\ lastCall.raised # Ok
        /\ ( /\ lastCall.token # lastCall.cached
             /\ IsDecimal(lastCall.timestamp)
             /\ AgeTicks <= SixtySeconds
             /\ lastCall.token # NoneValue
             /\ lastCall.signature # NoneValue )
              => lastCall.raised = SignatureMismatch

\* a fresh call with a new token and the signature of another message
C4_Witness ==
    /\ Called
    /\ ~SignatureCorrect
    /\ lastCall.signature # NoneValue
    /\ lastCall.raised = SignatureMismatch

\* C5: the replay check precedes the overwrite; a call that passes it
\* stores its token even when rejected later; a call rejected as a replay
\* leaves the stored token; so the stored token is the latest call's token
\* and the immediate retry of a rejected call is rejected as a replay.
C5_TokenStoredOnEveryCall ==
    Called =>
        /\ cached_mailgun_token = lastCall.token
        /\ lastCall.raised = ReplayDetected <=> lastCall.token = lastCall.cached
        /\ lastCall.raised = ReplayDetected
              => cached_mailgun_token = lastCall.cached
        /\ prevCall.rejected /\ lastCall.token = prevCall.token
              => lastCall.raised = ReplayDetected

\* a call rejected as expired or for its signature has replaced the stored
\* token, and its retry was rejected as a replay
C5_Witness ==
    /\ Called
    /\ prevCall.rejected
    /\ prevCall.token = lastCall.token
    /\ lastCall.token # NoneValue
    /\ ValidCall
    /\ lastCall.raised = ReplayDetected

\* the stored token when the latest call was made: the token of the call
\* before it, None when there was none
TokenOfPrecedingCall ==
    IF prevCall = NoPrevCall THEN NoneValue ELSE prevCall.token

\* C12 as stated: a call is rejected as a replay if and only if its token is
\* the token of the immediately preceding call.
C12_ReplayIffRepeatsPrecedingCall ==
    Called =>
        (lastCall.raised = ReplayDetected
            <=> prevCall # NoPrevCall /\ lastCall.token = prevCall.token)

\* C12, amended: the guard is a single slot, None at the start and then the
\* token of the immediately preceding call, accepted or not; a call is
\* rejected as a replay if and only if its token equals the slot, so also a
\* first call without a token is; a token accepted earlier is not rejected
\* as a replay once a call with another token has intervened (A, B, A).
C12_SingleSlot ==
    Called =>
        /\ lastCall.cached = TokenOfPrecedingCall
        /\ lastCall.raised = ReplayDetected
              <=> lastCall.token = TokenOfPrecedingCall
        /\ lastCall.acceptedBefore /\ lastCall.token # prevCall.token
              => lastCall.raised # ReplayDetected

\* tokens A, B, A: the token of the latest call was accepted before, the call
\* in between had another token, and the latest call returned
C12_Witness ==
    /\ Called
    /\ lastCall.acceptedBefore
    /\ prevCall # NoPrevCall
    /\ prevCall.token # lastCall.token
    /\ lastCall.token # NoneValue
    /\ lastCall.raised = Ok

(***************************************************************************)
(* Properties of resize_image.                                             *)
(***************************************************************************)
ResizeCalled == resized # NotResized

\* the orientation tag of the source image, 0 when it has none
SourceOrientation ==
    IF source.metadata.hasOrientation THEN source.metadata.Orientation ELSE 0

\* the sides of the source image after the rotation of its orientation tag
RotatedWidth ==
    IF SourceOrientation \in {6, 8} THEN source.size[2] ELSE source.size[1]

RotatedHeight ==
    IF SourceOrientation \in {6, 8} THEN source.size[1] ELSE source.size[2]

LongEdge == IF RotatedWidth > RotatedHeight THEN RotatedWidth ELSE RotatedHeight

ShortEdge == IF RotatedWidth > RotatedHeight THEN RotatedHeight ELSE RotatedWidth

\* n is an integer nearest to side * target / LongEdge
Nearest(n, side, target) ==
    /\ 2 * (n * LongEdge - side * target) <= LongEdge
    /\ 2 * (side * target - n * LongEdge) <= LongEdge

\* the list returned holds four sizes, the long edge 320, 640, 960, 1280 and
\* the other side scaled in proportion and rounded to a nearest integer
FourScaledRenditions ==
    /\ resized.raised = Ok
    /\ Len(resized.sizes) = 4
    /\ \A i \in 1..4 :
          LET target == <<320, 640, 960, 1280>>[i]
              w == resized.sizes[i][1]
              h == resized.sizes[i][2]
          IN  /\ (IF w > h THEN w ELSE h) = target
              /\ Nearest(w, RotatedWidth, target)
              /\ Nearest(h, RotatedHeight, target)

Landscape == <<<<320, 240>>, <<640, 480>>, <<960, 720>>, <<1280, 960>>>>

Portrait == <<<<240, 320>>, <<480, 640>>, <<720, 960>>, <<960, 1280>>>>

\* C7 as stated (for the 1600x1200 image): whatever the orientation tag,
\* resize_image returns four renditions scaled to 320, 640, 960 and 1280.
C7_FourRenditionsAnyTag ==
    ResizeCalled /\ source.size = <<1600, 1200>> => FourScaledRenditions

\* C7, amended: for an orientation tag of 0 to 8 or none, resize_image
\* returns four renditions, in ascending target order, the long edge exactly
\* 320, 640, 960, 1280 and the other side the proportional value rounded to a
\* nearest integer, unless a side rounds to 0 (the short edge is at most
\* 1/640 of the long one), when the resize raises; 1600x1200 gives
\* 320x240 .. 1280x960, and 240x320 .. 960x1280 with orientation 6.
C7_ScaledToTargets ==
    ResizeCalled /\ SourceOrientation \in 0..8 =>
        /\ resized.raised = Ok => FourScaledRenditions
        /\ resized.raised # Ok
              => resized.raised = ValueError /\ 640 * ShortEdge <= LongEdge
        /\ 640 * ShortEdge < LongEdge => resized.raised = ValueError
        /\ source.size = <<1600, 1200>> =>
              resized.sizes = IF SourceOrientation \in {6, 8} THEN Portrait
                              ELSE Landscape

\* the 1600x1200 image with orientation 6 was resized to the portrait sizes
C7_Witness ==
    /\ source.size = <<1600, 1200>>
    /\ source.metadata.hasOrientation
    /\ source.metadata.Orientation = 6
    /\ resized.raised = Ok
    /\ resized.sizes = Portrait

(***************************************************************************)
(* Properties of upload() and process_image().                             *)
(***************************************************************************)
\* the operations in a log of effects, and how often one occurs
OpsOf(log) == {log[i].op : i \in 1..Len(log)}

CountOp(log, op) == Cardinality({i \in 1..Len(log) : log[i].op = op})

\* the paths a log of effects wrote to transient storage
WrittenPaths(log) ==
    {log[i].arg : i \in {k \in 1..Len(log) : log[k].op \in {"write", "save"}}}

IsPrefix(s, t) == Len(s) <= Len(t) /\ s = SubSeq(t, 1, Len(s))

Failed == pc = "idle" /\ response.error # ""

\* C2 as stated: every failure of a request is answered with 406.
C2_EveryFailureIs406 == Failed => response.status = 406

\* the numeric suffixes of the post files present
PostSuffixes ==
    {n \in 0..(3 + MaxRequests) : \E p \in posts :
        \E k \in 1..Len(p) :
            SubSeq(p, k, Len(p)) = <<"-">> \o IntToStr(n) \o <<".", "m", "d">>}

\* C6 as stated: every identifier assigned is strictly greater than every
\* identifier assigned before it.
C6_StrictlyIncreasing ==
    \A i, j \in 1..Len(assigned) :
        i < j => assigned[j].oid > assigned[i].oid

\* C6, amended: the identifier assigned is one greater than the largest
\* suffix among the post files present (suffixes 0, 1, 3 give 4), so it is
\* greater than the identifier of every post written before; after a
\* notification that wrote no post (it failed first, or ran in dry-run mode)
\* the same identifier is assigned again.
C6_OneMoreThanLargestPresent ==
    /\ pc = "download" =>
          /\ post_object.oid - 1 \in PostSuffixes
          /\ \A n \in PostSuffixes : n < post_object.oid
          /\ assigned[Len(assigned)].oid = post_object.oid
          /\ posts = InitialPosts => post_object.oid = 4
    /\ \A i \in 1..(Len(assigned) - 1) :
          assigned[i + 1].oid =
              IF assigned[i].wrote THEN assigned[i].oid + 1 ELSE assigned[i].oid
    /\ \A i, j \in 1..Len(assigned) :
          i < j /\ assigned[i].wrote => assigned[j].oid > assigned[i].oid

\* a post was written as 4 and the next notification was assigned 5
C6_Witness ==
    /\ Len(assigned) = 2
    /\ assigned[1] = [oid |-> 4, wrote |-> TRUE]
    /\ assigned[2].oid = 5
    /\ PostName(Today, 4) \in posts

\* a notification handled to the end in dry-run mode
DryRunDone == DRY /\ pc = "idle" /\ response.status = 200

\* C8 as stated: in dry-run mode a notification does nothing but log: no
\* upload, no deletion, no file written, no retrieval, no git operation.
C8_NoSideEffectInDry ==
    DRY => /\ OpsOf(effects) \subseteq {"info:Uploading", "info:Deleting"}
           /\ tmp = {}

\* C8, amended: in dry-run mode nothing is put to object storage, no file is
\* removed, no post file is written and nothing is added, committed or
\* pushed; the pull, the download, the write of the downloaded file and the
\* saves of the four renditions still happen, and the uploads and deletions
\* are logged.
C8_DryGuardsDestructive ==
    DRY =>
       /\ OpsOf(effects) \cap {"put_object", "remove", "write_post",
                               "git.add", "git.commit", "git.push"} = {}
       /\ bucket = {}
       /\ posts \in {InitialPosts, {}}
       /\ WrittenPaths(effects) \subseteq tmp
       /\ DryRunDone =>
             [i \in 1..Len(effects) |-> effects[i].op] =
                 <<"git.pull", "requests.get", "write",
                   "save", "save", "save", "save",
                   "info:Uploading", "info:Uploading", "info:Uploading",
                   "info:Uploading",
                   "info:Deleting", "info:Deleting", "info:Deleting",
                   "info:Deleting", "info:Deleting">>

\* a dry run reached its end, with the downloaded file left in /tmp
C8_Witness ==
    /\ DryRunDone
    /\ CountOp(effects, "info:Deleting") = 5
    /\ <<"/", "t", "m", "p", "/", "p", ".", "j", "p", "g">> \in tmp

\* process_image is past its resize
InProcessImage ==
    pc \in {"save", "upload_files", "delete", "finish", "create_post",
            "update_site"}

ProcessImageReturned == pc \in {"create_post", "update_site"}

\* what process_image has done so far
ProcessLog ==
    SelectSeq(effects,
              LAMBDA e : e.op \in {"save", "info:Uploading", "put_object",
                                   "info:Deleting", "remove"})

\* the name and the path of rendition i
RenditionName(i) ==
    IntToStr(post_object.oid) \o <<"-">> \o IntToStr(resized.sizes[i][1])
        \o <<".", "j", "p", "g">>

RenditionPath(i) == <<"/", "t", "m", "p", "/">> \o RenditionName(i)

\* everything a run of process_image does, in order
ExpectedProcessLog ==
    LET saves == [i \in 1..4 |-> [op |-> "save", arg |-> RenditionPath(i)]]
        up(i) == <<[op |-> "info:Uploading", arg |-> RenditionPath(i)]>>
                    \o (IF DRY THEN <<>>
                        ELSE <<[op |-> "put_object", arg |-> RenditionName(i)]>>)
        del(path) == <<[op |-> "info:Deleting", arg |-> path]>>
                        \o (IF DRY THEN <<>>
                            ELSE <<[op |-> "remove", arg |-> path]>>)
    IN  saves \o up(1) \o up(2) \o up(3) \o up(4)
              \o del(img_path) \o del(RenditionPath(1)) \o del(RenditionPath(2))
              \o del(RenditionPath(3)) \o del(RenditionPath(4))

\* C9 as stated: a run of process_image has saved the four renditions, put
\* all four to object storage and then removed the original and the four.
C9_AlwaysUploadsThenDeletes ==
    ProcessImageReturned =>
        /\ CountOp(effects, "save") = 4
        /\ CountOp(effects, "put_object") = 4
        /\ CountOp(effects, "remove") = 5

\* C9, amended: process_image saves the four files /tmp/{oid}-{width}.jpg in
\* ascending rendition order, then upload_files takes the four in that order,
\* and only then delete takes the original followed by the same four; each
\* is put to object storage and removed outside dry-run mode and only logged
\* in dry-run mode; a step that raises ends the run, so what a run has done
\* is always an initial part of this sequence, and a deletion is never
\* attempted before four saves and four uploads; a run that returns has done
\* all of it and set og_image to the name of the widest rendition.
C9_SaveUploadDeleteInOrder ==
    /\ InProcessImage => IsPrefix(ProcessLog, ExpectedProcessLog)
    /\ pc \in {"finish", "create_post", "update_site"} =>
          ProcessLog = ExpectedProcessLog
    /\ ProcessImageReturned =>
          \E i \in 1..4 :
             /\ post_object.og_image = RenditionName(i)
             /\ \A k \in 1..4 : resized.sizes[k][1] <= resized.sizes[i][1]
    /\ \A i \in 1..Len(effects) :
          effects[i].op \in {"info:Deleting", "remove"} =>
             /\ CountOp(SubSeq(effects, 1, i), "save") = 4
             /\ CountOp(SubSeq(effects, 1, i), "info:Uploading") = 4
             /\ ~DRY => CountOp(SubSeq(effects, 1, i), "put_object") = 4

\* a live run of process_image returned: four objects in the bucket, the
\* five files removed
C9_Witness ==
    /\ ~DRY
    /\ pc = "create_post"
    /\ Len(ProcessLog) = 22
    /\ Cardinality(bucket) = 4
    /\ tmp = {}

\* an upload of a rendition failed
UploadFailed == pc = "idle" /\ response.error = "ClientError"

TagOneToNineOrAbsent ==
    ~source.metadata.hasOrientation \/ source.metadata.Orientation \in 1..9

\* the rotation of the tag: 3 a half turn, 6 a quarter turn clockwise, 8
\* three quarters clockwise (rotate() turns counter-clockwise, hence the
\* negative degrees), none for any other tag
RotationOfTag ==
    CASE SourceOrientation = 3 -> -180
      [] SourceOrientation = 6 -> -90
      [] SourceOrientation = 8 -> -270
      [] OTHER -> NoRotation

\* C11 as stated: for an orientation tag of 1 to 9 and for an absent tag the
\* mapping is defined: 3, 6 and 8 rotate by 180, 90 and 270 degrees, every
\* other value, 9 and absent included, rotates nothing and raises no error.
C11_DefinedForOneToNine ==
    ResizeCalled /\ TagOneToNineOrAbsent =>
        /\ resized.raised # IndexError
        /\ resized.degree = RotationOfTag

\* C11, amended: the mapping is defined for the tags 0 to 8 and for an absent
\* tag: 3, 6 and 8 rotate by 180, 90 and 270 degrees (a quarter turn swaps
\* width and height), every other value of 0 to 8 and the absent tag rotate
\* nothing, and none of them raises IndexError; the tag 9 is outside the
\* table and raises IndexError before anything is resized.
C11_DefinedForZeroToEight ==
    ResizeCalled =>
        /\ SourceOrientation \in 0..8 =>
              /\ resized.raised # IndexError
              /\ resized.degree = RotationOfTag
              /\ resized.raised = Ok =>
                    (resized.sizes[4][1] >= resized.sizes[4][2]
                        <=> RotatedWidth >= RotatedHeight)
        /\ SourceOrientation > 8 =>
              resized = [raised |-> IndexError, sizes |-> <<>>,
                         degree |-> NoRotation]

\* the 1600x1200 image with orientation 8 was turned by 270 degrees
C11_Witness ==
    /\ source.size = <<1600, 1200>>
    /\ source.metadata.hasOrientation
    /\ source.metadata.Orientation = 8
    /\ resized.raised = Ok
    /\ resized.degree = -270
    /\ resized.sizes[1] = <<240, 320>>

(***************************************************************************)
(* Properties of the rendition widths and file names.                      *)
(***************************************************************************)
\* C13 as stated: the four widths resize_image computed are positive and
\* pairwise distinct, and so are the four file names {oid}-{width}.jpg that
\* process_image built from them.
C13_WidthsAndNamesDistinct ==
    InProcessImage =>
        /\ \A i \in 1..4 : resized.sizes[i][1] > 0
        /\ \A i, j \in 1..4 :
              i # j => /\ resized.sizes[i][1] # resized.sizes[j][1]
                       /\ new_files[i] # new_files[j]


=============================================================================
